---------------------------- MODULE Spec2Model ----------------------------
(***************************************************************************)
(* Model of src/chips/poly_operations.rs (zk-fhe): the six polynomial      *)
(* chips and the constraint session (halo2 Context) they append to.        *)
(*                                                                         *)
(* The session ctx is the sequence of entries appended so far.  An         *)
(* AssignedValue is the index of the entry that produced it; its value is  *)
(* the field v of that entry.  A polynomial is a sequence of such cells,   *)
(* leading coefficient first.  Rust indices are 0-based, sequences here    *)
(* are 1-based: a[j] in the source is a[j + 1] here.                       *)
(*                                                                         *)
(* All circuit values of the model are far below the field's prime, so     *)
(* field arithmetic is integer arithmetic.                                 *)
(***************************************************************************)
EXTENDS Integers, Sequences, FiniteSets, TLC

VARIABLES
    ctx,    \* the constraint session (ctx: &mut Context<F>)
    ctx0,   \* the session as it was when the operation was called
    pc,     \* position of the circuit builder
    args,   \* the operation called and its arguments
    loc,    \* local variables of poly_divide_by_cyclo
    ret     \* the vector of cells the operation returned

vars == <<ctx, ctx0, pc, args, loc, ret>>

---------------------------------------------------------------------------
\* Bounds of the model.

\* largest degree parameter DEG of the leaf operations
MaxDeg == 2
\* largest coefficient value of the leaf operations' inputs
MaxCoef == 1
\* largest ring modulus Q of the exhaustive inputs
MaxQ == 3
\* largest divisor degree DEG_DVS
MaxDegDvs == 3
\* largest num_bits handed to poly_reduce when called on its own
MaxBits == 2

---------------------------------------------------------------------------
\* Small helpers.

Range(lo, hi) == [t \in 1..(hi - lo + 1) |-> lo + t - 1]

Zeros(n) == [t \in 1..n |-> 0]

Vecs(n, m) == [1..n -> 0..m]

Pow2(n) == 2 ^ n

\* the values of a vector of cells in session c
Vals(c, cells) == [t \in 1..Len(cells) |-> c[cells[t]].v]

---------------------------------------------------------------------------
\* The session's primitives (halo2-lib: Context, GateChip, RangeChip).

Entry(g, a, b, k, v) == [g |-> g, a |-> a, b |-> b, k |-> k, v |-> v]

\* ctx.load_witness(val): a fresh cell carrying no constraint
LoadWitness(c, val) == Append(c, Entry("witness", 0, 0, 0, val))

\* gate.add(ctx, a, b): a new cell constrained to a + b
GateAdd(c, a, b) == Append(c, Entry("add", a, b, 0, c[a].v + c[b].v))

\* gate.mul(ctx, a, b): a new cell constrained to a * b
GateMul(c, a, b) == Append(c, Entry("mul", a, b, 0, c[a].v * c[b].v))

\* range.check_less_than_safe(ctx, a, bound): the constraint a < bound
CheckLessThanSafe(c, a, bound) == Append(c, Entry("lt", a, 0, bound, 0))

\* range.div_mod(ctx, a, q, num_bits): cells (div, rem) with a = div*q + rem,
\* rem < q and div bounded to num_bits bits; rem is the last cell appended
DivMod(c, a, q, num_bits) ==
    c \o << Entry("div", a, num_bits, q, c[a].v \div q),
            Entry("rem", a, 0, q, c[a].v % q) >>

\* gate.is_equal(ctx, a, b): a new cell that is 1 if a = b and 0 otherwise
IsEqual(c, a, b) ==
    Append(c, Entry("is_equal", a, b, 0, IF c[a].v = c[b].v THEN 1 ELSE 0))

\* gate.assert_is_const(ctx, a, k): the constraint a = k
AssertIsConst(c, a, k) == Append(c, Entry("const", a, 0, k, 0))

RECURSIVE LoadAll(_, _)
LoadAll(c, vs) ==
    IF vs = <<>> THEN c ELSE LoadAll(LoadWitness(c, Head(vs)), Tail(vs))

\* Result of an operation: ok = FALSE is a failed assertion (a panic).
Result(ok, c, out) == [ok |-> ok, ctx |-> c, out |-> out]

---------------------------------------------------------------------------
\* poly_add

\* variant: the add gates are emitted before the degrees are asserted
PolyAddGatesFirst(c, a, b, DEG) ==
    LET n == IF Len(a) < Len(b) THEN Len(a) ELSE Len(b)
        c1 == c \o [t \in 1..n |-> Entry("add", a[t], b[t], 0, c[a[t]].v + c[b[t]].v)]
    IN  IF Len(a) - 1 = Len(b) - 1 /\ Len(a) - 1 = DEG
        THEN Result(TRUE, c1, Range(Len(c) + 1, Len(c) + n))
        ELSE Result(FALSE, c1, <<>>)

\* The two assertions come first (an empty vector makes a.len() - 1 underflow:
\* a panic with overflow checks, and usize::MAX /= DEG without them, so the
\* call aborts either way); then one add gate per index.
PolyAdd(c, a, b, DEG) ==
    IF Len(a) - 1 = Len(b) - 1 /\ Len(a) - 1 = DEG
    THEN Result(TRUE,
                c \o [t \in 1..(DEG + 1) |->
                        Entry("add", a[t], b[t], 0, c[a[t]].v + c[b[t]].v)],
                Range(Len(c) + 1, Len(c) + DEG + 1))
    ELSE Result(FALSE, c, <<>>)

---------------------------------------------------------------------------
\* poly_mul_equal_deg and poly_mul_diff_deg

\* coefficient_accumaltor of output index i: one mul gate per j of js
RECURSIVE MulTerms(_, _, _, _, _)
MulTerms(c, a, b, i, js) ==
    IF js = <<>> THEN c
    ELSE MulTerms(GateMul(c, a[Head(js) + 1], b[i - Head(js) + 1]), a, b, i, Tail(js))

\* .iter().fold(acc, |acc, x| gate.add(ctx, acc, *x))
RECURSIVE FoldAdd(_, _, _)
FoldAdd(c, acc, xs) ==
    IF xs = <<>> THEN [ctx |-> c, out |-> acc]
    ELSE FoldAdd(GateAdd(c, acc, Head(xs)), Len(c) + 1, Tail(xs))

\* One output coefficient: the mul gates, then the zero witness seeding the
\* fold, then one add gate per product.
Coefficient(c, a, b, i, js) ==
    LET c1 == MulTerms(c, a, b, i, js)
        c2 == LoadWitness(c1, 0)
    IN  FoldAdd(c2, Len(c2), Range(Len(c) + 1, Len(c1)))

\* variant: the shrinking half of the triangle starts one index late
EqualDegRangeShort(i, DEG) ==
    IF i < DEG + 1 THEN Range(0, i) ELSE Range(i - DEG + 1, DEG)

\* the a_idx values of output index i in poly_mul_equal_deg
EqualDegRange(i, DEG) ==
    IF i < DEG + 1 THEN Range(0, i) ELSE Range(i - DEG, DEG)

\* variants: a bounds check that is strict on one side
DiffDegRangeStrictA(i, a_deg, b_deg) ==
    SelectSeq(Range(0, i), LAMBDA j : j < a_deg /\ (i - j) <= b_deg)

DiffDegRangeStrictB(i, a_deg, b_deg) ==
    SelectSeq(Range(0, i), LAMBDA j : j <= a_deg /\ (i - j) < b_deg)

\* the j values of output index i in poly_mul_diff_deg
DiffDegRange(i, a_deg, b_deg) ==
    SelectSeq(Range(0, i), LAMBDA j : j <= a_deg /\ (i - j) <= b_deg)

RECURSIVE EqualDegLoop(_, _, _, _, _, _)
EqualDegLoop(c, a, b, DEG, i, out) ==
    IF i >= 2 * DEG + 1 THEN Result(TRUE, c, out)
    ELSE LET r == Coefficient(c, a, b, i, EqualDegRange(i, DEG))
         IN  EqualDegLoop(r.ctx, a, b, DEG, i + 1, Append(out, r.out))

PolyMulEqualDeg(c, a, b, DEG) ==
    IF Len(a) - 1 = Len(b) - 1 /\ Len(a) - 1 = DEG
    THEN EqualDegLoop(c, a, b, DEG, 0, <<>>)
    ELSE Result(FALSE, c, <<>>)

RECURSIVE DiffDegLoop(_, _, _, _, _)
DiffDegLoop(c, a, b, i, out) ==
    IF i > (Len(a) - 1) + (Len(b) - 1) THEN Result(TRUE, c, out)
    ELSE LET r == Coefficient(c, a, b, i, DiffDegRange(i, Len(a) - 1, Len(b) - 1))
         IN  DiffDegLoop(r.ctx, a, b, i + 1, Append(out, r.out))

\* No assertion on the inputs; the closing assertion on c.len() cannot fail.
PolyMulDiffDeg(c, a, b) == DiffDegLoop(c, a, b, 0, <<>>)

---------------------------------------------------------------------------
\* poly_scalar_mul

PolyScalarMul(c, a, b, DEG) ==
    IF Len(a) - 1 = DEG
    THEN Result(TRUE,
                c \o [t \in 1..(DEG + 1) |->
                        Entry("mul", a[t], b, 0, c[a[t]].v * c[b].v)],
                Range(Len(c) + 1, Len(c) + DEG + 1))
    ELSE Result(FALSE, c, <<>>)

---------------------------------------------------------------------------
\* poly_reduce

\* variant: the quotient component .0 of div_mod is kept
RECURSIVE ReduceLoopDiv(_, _, _, _, _, _)
ReduceLoopDiv(c, input, Q, num_bits, i, out) ==
    IF i > Len(input) - 1 THEN Result(TRUE, c, out)
    ELSE LET c1 == DivMod(c, input[i + 1], Q, num_bits)
         IN  ReduceLoopDiv(c1, input, Q, num_bits, i + 1, Append(out, Len(c1) - 1))

\* for i in 0..=DEG: rem = range.div_mod(ctx, input[i], Q, num_bits).1
RECURSIVE ReduceLoop(_, _, _, _, _, _)
ReduceLoop(c, input, Q, num_bits, i, out) ==
    IF i > Len(input) - 1 THEN Result(TRUE, c, out)
    ELSE LET c1 == DivMod(c, input[i + 1], Q, num_bits)
         IN  ReduceLoop(c1, input, Q, num_bits, i + 1, Append(out, Len(c1)))

PolyReduce(c, input, Q, num_bits, DEG) ==
    IF Len(input) - 1 = DEG
    THEN ReduceLoop(c, input, Q, num_bits, 0, <<>>)
    ELSE Result(FALSE, c, <<>>)

---------------------------------------------------------------------------
\* u64 arithmetic.  A u64 is four 16-bit limbs, least significant first, so
\* that moduli up to 2^64 - 1 can be written down.

Limb == 2 ^ 16

ToU64(n) == << n % Limb, (n \div Limb) % Limb, 0, 0 >>

\* x - 1 for x >= 1
RECURSIVE SubOne(_)
SubOne(x) ==
    IF Head(x) > 0 THEN <<Head(x) - 1>> \o Tail(x)
    ELSE <<Limb - 1>> \o SubOne(Tail(x))

\* x * k + y with all its carries: one limb more than x
RECURSIVE MulAdd(_, _, _, _)
MulAdd(x, k, y, carry) ==
    IF x = <<>> THEN <<carry>>
    ELSE LET t == Head(x) * k + Head(y) + carry
         IN  <<t % Limb>> \o MulAdd(Tail(x), k, Tail(y), t \div Limb)

RECURSIVE BitsOf(_)
BitsOf(n) == IF n < 2 THEN 1 ELSE 1 + BitsOf(n \div 2)

\* format!("{:b}", x).len(): the number of binary digits of x ("0" for 0)
RECURSIVE BinaryLen(_)
BinaryLen(x) ==
    IF Len(x) = 1 THEN BitsOf(x[1])
    ELSE IF x[Len(x)] # 0 THEN 16 * (Len(x) - 1) + BitsOf(x[Len(x)])
    ELSE BinaryLen(SubSeq(x, 1, Len(x) - 1))

\* (Q - 1) * (DEG_DVD - DEG_DVS + 1) + (Q - 1) over the integers
OverflowBound(Qw, DEG_DVD, DEG_DVS) ==
    MulAdd(SubOne(Qw), DEG_DVD - DEG_DVS + 1, SubOne(Qw), 0)

\* The same expression as the u64 expression the source evaluates: overflow
\* is set when the exact value does not fit 64 bits, and num_bits is the
\* binary length of the value reduced modulo 2^64.
NumBits(Qw, DEG_DVD, DEG_DVS) ==
    LET exact == OverflowBound(Qw, DEG_DVD, DEG_DVS)
    IN  [overflow |-> exact[5] # 0,
         num_bits |-> BinaryLen(SubSeq(exact, 1, 4))]

---------------------------------------------------------------------------
\* The collaborators of poly_divide_by_cyclo in chips/utils.rs.

\* vec_assigned_to_vec_u64: the plain values of a vector of cells
VecAssignedToVecU64(c, cells) == Vals(c, cells)

RECURSIVE LeadingZeros(_)
LeadingZeros(v) ==
    IF v = <<>> \/ Head(v) # 0 THEN 0 ELSE 1 + LeadingZeros(Tail(v))

\* Schoolbook long division: while the dividend is at least as long as the
\* divisor, divide the leading coefficients, subtract and drop the head.
RECURSIVE LongDivision(_, _, _)
LongDivision(dvd, dvs, q) ==
    IF Len(dvd) <= Len(dvs) - 1 THEN [quotient |-> q, remainder |-> dvd]
    ELSE LET ratio == dvd[1] \div dvs[1]
             sub == [t \in 1..Len(dvd) |->
                        IF t <= Len(dvs) THEN dvd[t] - ratio * dvs[t] ELSE dvd[t]]
         IN  LongDivision(Tail(sub), dvs, Append(q, ratio))

\* a negative remainder coefficient is normalised by adding Q
AddQ(r, Q) == [t \in 1..Len(r) |-> IF r[t] < 0 THEN r[t] + Q ELSE r[t]]

\* div_euclid::<DEG_DVD, DEG_DVS, Q>: the quotient and the remainder as u64
\* vectors.  Its contract fixes the polynomials, not how many leading zero
\* coefficients the vectors keep, so every such representation is an outcome.
DivEuclid(dividend, divisor, Q) ==
    LET d == LongDivision(dividend, divisor, <<>>)
        r == AddQ(d.remainder, Q)
    IN  { [quotient |-> SubSeq(d.quotient, kq + 1, Len(d.quotient)),
           remainder |-> SubSeq(r, kr + 1, Len(r))] :
            kq \in 0..LeadingZeros(d.quotient), kr \in 0..LeadingZeros(r) }

---------------------------------------------------------------------------
\* Steps of poly_divide_by_cyclo that are loops over a vector.

\* while remainder.len() - 1 < DEG_DVS - 1 { remainder.push(0) }
PadLow(r, DEG_DVS) == r \o Zeros(DEG_DVS - Len(r))

\* while remainder.len() - 1 < DEG_DVD { remainder.insert(0, 0) }
PadHigh(r, DEG_DVD) == Zeros(DEG_DVD + 1 - Len(r)) \o r

\* range.check_less_than_safe(ctx, v[i], Q) for i in 0..n
RECURSIVE RangeLoop(_, _, _, _, _)
RangeLoop(c, v, Q, i, n) ==
    IF i >= n THEN c
    ELSE RangeLoop(CheckLessThanSafe(c, v[i + 1], Q), v, Q, i + 1, n)

RangeConstraints(c, quotient, remainder, Q, DEG_DVD, DEG_DVS) ==
    RangeLoop(RangeLoop(c, quotient, Q, 0, DEG_DVD - DEG_DVS + 1),
              remainder, Q, 0, DEG_DVS)

\* variant: the equality gates alone, their results never asserted
RECURSIVE EnforceEqualNoAssert(_, _, _, _, _)
EnforceEqualNoAssert(c, x, y, i, n) ==
    IF i > n THEN c
    ELSE EnforceEqualNoAssert(IsEqual(c, x[i + 1], y[i + 1]), x, y, i + 1, n)

\* for i in 0..=DEG_DVD: is_equal(sum_mod[i], dividend[i]), assert_is_const(1)
RECURSIVE EnforceEqual(_, _, _, _, _)
EnforceEqual(c, x, y, i, n) ==
    IF i > n THEN c
    ELSE LET c1 == IsEqual(c, x[i + 1], y[i + 1])
         IN  EnforceEqual(AssertIsConst(c1, Len(c1), 1), x, y, i + 1, n)

---------------------------------------------------------------------------
\* Whether a session's constraints hold for the values its cells carry.

EntryHolds(c, e) ==
    CASE e.g = "witness"  -> TRUE
      [] e.g = "add"      -> e.v = c[e.a].v + c[e.b].v
      [] e.g = "mul"      -> e.v = c[e.a].v * c[e.b].v
      [] e.g = "lt"       -> c[e.a].v >= 0 /\ c[e.a].v < e.k
      [] e.g = "div"      -> e.v >= 0 /\ e.v < Pow2(e.b)
      [] e.g = "rem"      -> /\ e.v >= 0 /\ e.v < e.k
                             /\ \E t \in 1..Len(c) :
                                  /\ c[t].g = "div" /\ c[t].a = e.a /\ c[t].k = e.k
                                  /\ c[e.a].v = c[t].v * e.k + e.v
      [] e.g = "is_equal" -> e.v = IF c[e.a].v = c[e.b].v THEN 1 ELSE 0
      [] e.g = "const"    -> c[e.a].v = e.k

Satisfied(c) == \A t \in 1..Len(c) : EntryHolds(c, c[t])

---------------------------------------------------------------------------
\* Inputs.  The caller has loaded the coefficient vectors into the session
\* as witnesses before the call.

NoLoc == [quotient_to_u64 |-> <<>>, oracle_remainder |-> <<>>,
          remainder_to_u64 |-> <<>>, quotient |-> <<>>, remainder |-> <<>>,
          prod |-> <<>>, sum |-> <<>>, sum_mod |-> <<>>, num_bits |-> 0]

\* overflow_checks: whether the build panics on integer overflow (a debug
\* build) or wraps (a release build)
Args(op, a, b, DEG, DEG_DVS, Q, Qw, num_bits, overflow_checks) ==
    [op |-> op, a |-> a, b |-> b, DEG |-> DEG, DEG_DVS |-> DEG_DVS,
     Q |-> Q, Qw |-> Qw, num_bits |-> num_bits,
     overflow_checks |-> overflow_checks]

Start(av, bv, a) ==
    /\ ctx = LoadAll(<<>>, av \o bv)
    /\ args = a
    /\ ctx0 = ctx /\ pc = "call" /\ loc = NoLoc /\ ret = <<>>

Cells(lo, n) == Range(lo, lo + n - 1)

LeafVecs == UNION { Vecs(n, MaxCoef) : n \in 0..(MaxDeg + 1) }

InitTwoVectors ==
    \E av \in LeafVecs, bv \in LeafVecs, DEG \in 0..MaxDeg :
      \E op \in {"poly_add", "poly_mul_equal_deg", "poly_mul_diff_deg"} :
         /\ op = "poly_mul_diff_deg" => (DEG = 0 /\ av # <<>> /\ bv # <<>>)
         /\ Start(av, bv, Args(op, Cells(1, Len(av)), Cells(Len(av) + 1, Len(bv)),
                               DEG, 0, 0, ToU64(0), 0, TRUE))

InitScalarMul ==
    \E av \in LeafVecs, k \in 0..MaxCoef, DEG \in 0..MaxDeg :
       Start(av, <<k>>, Args("poly_scalar_mul", Cells(1, Len(av)),
                             <<Len(av) + 1>>, DEG, 0, 0, ToU64(0), 0, TRUE))

\* poly_reduce on its own: coefficients that fit num_bits bits or do not
InitReduce ==
    \E n \in 0..(MaxDeg + 1), DEG \in 0..MaxDeg, Q \in 1..MaxQ, nb \in 1..MaxBits :
      \E av \in Vecs(n, Q + MaxCoef) :
         Start(av, <<>>, Args("poly_reduce", Cells(1, n), <<>>, DEG, 0, Q,
                              ToU64(Q), nb, TRUE))

\* the cyclotomic divisor x^n + 1
Cyclo(n) == [t \in 1..(n + 1) |-> IF t = 1 \/ t = n + 1 THEN 1 ELSE 0]

Min(x, y) == IF x < y THEN x ELSE y

DivideStart(dividend, divisor, DEG_DVD, DEG_DVS, Q) ==
    Start(dividend, divisor,
          Args("poly_divide_by_cyclo", Cells(1, Len(dividend)),
               Cells(Len(dividend) + 1, Len(divisor)), DEG_DVD, DEG_DVS, Q,
               ToU64(Q), 0, TRUE))

\* calls that meet the preconditions: every dividend with coefficients in
\* [0, Q - 1], divided by x^DEG_DVS + 1
InitDivide ==
    \E DEG_DVS \in 3..MaxDegDvs, Q \in 2..MaxQ :
      \E dividend \in Vecs(2 * DEG_DVS - 1, Q - 1) :
         DivideStart(dividend, Cyclo(DEG_DVS), 2 * DEG_DVS - 2, DEG_DVS, Q)

\* calls that break a degree precondition
InitDivideShape ==
    \E DEG_DVS \in 1..MaxDegDvs, Q \in 2..MaxQ :
      \E DEG_DVD \in {2 * DEG_DVS - 2, 2 * DEG_DVS - 1},
         m \in {DEG_DVS - 1, DEG_DVS} \ {0} :
        \E n \in {DEG_DVD, DEG_DVD + 1} :
          \E dividend \in Vecs(n, Min(MaxCoef, Q - 1)) :
             /\ ~(DEG_DVS >= 3 /\ DEG_DVD = 2 * DEG_DVS - 2
                  /\ n = DEG_DVD + 1 /\ m = DEG_DVS)
             /\ DivideStart(dividend, Cyclo(m), DEG_DVD, DEG_DVS, Q)

\* the scenario of the specification: x^4 + 2x^3 + 3x^2 + 4x + 5 by x^3 + 1
\* with Q = 11
InitScenario == DivideStart(<<1, 2, 3, 4, 5>>, <<1, 0, 0, 1>>, 4, 3, 11)

Init ==
    \/ InitTwoVectors
    \/ InitScalarMul
    \/ InitReduce
    \/ InitDivide
    \/ InitDivideShape
    \/ InitScenario

---------------------------------------------------------------------------
\* The leaf operations, each called once on the session.

Finish(r) ==
    /\ ctx' = r.ctx
    /\ pc' = IF r.ok THEN "done" ELSE "aborted"
    /\ ret' = r.out
    /\ UNCHANGED <<ctx0, args, loc>>

CallPolyAdd ==
    /\ pc = "call" /\ args.op = "poly_add"
    /\ Finish(PolyAdd(ctx, args.a, args.b, args.DEG))

CallPolyMulEqualDeg ==
    /\ pc = "call" /\ args.op = "poly_mul_equal_deg"
    /\ Finish(PolyMulEqualDeg(ctx, args.a, args.b, args.DEG))

CallPolyMulDiffDeg ==
    /\ pc = "call" /\ args.op = "poly_mul_diff_deg"
    /\ Finish(PolyMulDiffDeg(ctx, args.a, args.b))

CallPolyScalarMul ==
    /\ pc = "call" /\ args.op = "poly_scalar_mul"
    /\ Finish(PolyScalarMul(ctx, args.a, args.b[1], args.DEG))

CallPolyReduce ==
    /\ pc = "call" /\ args.op = "poly_reduce"
    /\ Finish(PolyReduce(ctx, args.a, args.Q, args.num_bits, args.DEG))

---------------------------------------------------------------------------
\* poly_divide_by_cyclo, step by step.

Dividing(at) == pc = at /\ args.op = "poly_divide_by_cyclo"

DEG_DVD == args.DEG
DEG_DVS == args.DEG_DVS
dividend == args.a
divisor == args.b

Goto(ok, to) == pc' = IF ok THEN to ELSE "aborted"

\* lines 210-217: the assertions on the degrees
DegreesOk(dvd, dvs, dDVD, dDVS) ==
    /\ Len(dvd) - 1 = dDVD
    /\ Len(dvs) - 1 = dDVS
    /\ Len(dvd) - 1 = (2 * dDVS) - 2
    /\ dDVS < dDVD

DivideEntry ==
    /\ Dividing("call")
    /\ Goto(DegreesOk(dividend, divisor, DEG_DVD, DEG_DVS), "oracle")
    /\ UNCHANGED <<ctx, ctx0, args, loc, ret>>

\* lines 228-231: the assertions on what the oracle returned (an empty
\* remainder makes len() - 1 underflow: a panic, or usize::MAX < DEG_DVS
\* failing)
OracleOk(quotient_to_u64, remainder_to_u64, dDVD, dDVS) ==
    /\ Len(quotient_to_u64) - 1 = dDVD - dDVS
    /\ Len(remainder_to_u64) >= 1
    /\ Len(remainder_to_u64) - 1 < dDVS

\* lines 221-231: extraction, the division outside the circuit, its shape
DivideOracle ==
    /\ Dividing("oracle")
    /\ \E o \in DivEuclid(VecAssignedToVecU64(ctx, dividend),
                          VecAssignedToVecU64(ctx, divisor), args.Q) :
         /\ loc' = [loc EXCEPT !.quotient_to_u64 = o.quotient,
                               !.oracle_remainder = o.remainder,
                               !.remainder_to_u64 = o.remainder]
         /\ Goto(OracleOk(o.quotient, o.remainder, DEG_DVD, DEG_DVS), "pad")
    /\ UNCHANGED <<ctx, ctx0, args, ret>>

\* lines 234-250: the remainder padded to degree DEG_DVS - 1, then DEG_DVD
DividePad ==
    /\ Dividing("pad")
    /\ loc' = [loc EXCEPT !.remainder_to_u64 =
                 PadHigh(PadLow(loc.remainder_to_u64, DEG_DVS), DEG_DVD)]
    /\ pc' = "assign"
    /\ UNCHANGED <<ctx, ctx0, args, ret>>

\* lines 253-272: quotient and remainder loaded as witnesses
DivideAssign ==
    /\ Dividing("assign")
    /\ ctx' = LoadAll(LoadAll(ctx, SubSeq(loc.quotient_to_u64, 1, DEG_DVD - DEG_DVS + 1)),
                      SubSeq(loc.remainder_to_u64, 1, DEG_DVD + 1))
    /\ loc' = [loc EXCEPT
                 !.quotient = Cells(Len(ctx) + 1, DEG_DVD - DEG_DVS + 1),
                 !.remainder = Cells(Len(ctx) + DEG_DVD - DEG_DVS + 2, DEG_DVD + 1)]
    /\ pc' = "range"
    /\ UNCHANGED <<ctx0, args, ret>>

\* lines 279-293: the range constraints
DivideRange ==
    /\ Dividing("range")
    /\ ctx' = RangeConstraints(ctx, loc.quotient, loc.remainder, args.Q,
                               DEG_DVD, DEG_DVS)
    /\ pc' = "mul"
    /\ UNCHANGED <<ctx0, args, loc, ret>>

\* lines 323-326: prod = quotient * divisor
DivideMul ==
    /\ Dividing("mul")
    /\ LET r == PolyMulDiffDeg(ctx, loc.quotient, divisor)
       IN  /\ ctx' = r.ctx
           /\ loc' = [loc EXCEPT !.prod = r.out]
           /\ Goto(Len(r.out) - 1 = DEG_DVD, "add")
    /\ UNCHANGED <<ctx0, args, ret>>

\* lines 342-345: sum = prod + remainder
DivideAdd ==
    /\ Dividing("add")
    /\ LET r == PolyAdd(ctx, loc.prod, loc.remainder, DEG_DVD)
       IN  /\ ctx' = r.ctx
           /\ loc' = [loc EXCEPT !.sum = r.out]
           /\ Goto(r.ok, "reduce")
    /\ UNCHANGED <<ctx0, args, ret>>

\* lines 350-361: num_bits and sum_mod = sum mod Q.  With overflow checks an
\* overflowing bound panics; without them it wraps.
DivideReduce ==
    /\ Dividing("reduce")
    /\ LET nb == NumBits(args.Qw, DEG_DVD, DEG_DVS)
           r == PolyReduce(ctx, loc.sum, args.Q, nb.num_bits, DEG_DVD)
       IN  IF nb.overflow /\ args.overflow_checks
           THEN pc' = "aborted" /\ UNCHANGED <<ctx, loc>>
           ELSE /\ ctx' = r.ctx
                /\ loc' = [loc EXCEPT !.num_bits = nb.num_bits, !.sum_mod = r.out]
                /\ Goto(r.ok, "equal")
    /\ UNCHANGED <<ctx0, args, ret>>

\* lines 364-369: sum_mod = dividend, coefficient by coefficient
DivideEqual ==
    /\ Dividing("equal")
    /\ ctx' = EnforceEqual(ctx, loc.sum_mod, dividend, 0, DEG_DVD)
    /\ ret' = loc.remainder
    /\ pc' = "done"
    /\ UNCHANGED <<ctx0, args, loc>>

Next ==
    \/ CallPolyAdd
    \/ CallPolyMulEqualDeg
    \/ CallPolyMulDiffDeg
    \/ CallPolyScalarMul
    \/ CallPolyReduce
    \/ DivideEntry
    \/ DivideOracle
    \/ DividePad
    \/ DivideAssign
    \/ DivideRange
    \/ DivideMul
    \/ DivideAdd
    \/ DivideReduce
    \/ DivideEqual

Spec == Init /\ [][Next]_vars

---------------------------------------------------------------------------
\* The bit-width computation of lines 350-354 on its own, for any modulus a
\* u64 can hold.

PowU64(e) == [t \in 1..4 |-> IF t = (e \div 16) + 1 THEN 2 ^ (e % 16) ELSE 0]

\* 2^e - 1, 2^e and 2^e + 1 for every e, and u64::MAX
U64Samples ==
    {PowU64(e) : e \in 0..63}
      \cup {SubOne(PowU64(e)) : e \in 1..63}
      \cup {SubSeq(MulAdd(PowU64(e), 1, ToU64(1), 0), 1, 4) : e \in 0..63}
      \cup {[t \in 1..4 |-> Limb - 1]}

InitBits ==
    /\ \E Qw \in U64Samples, DVS \in 3..MaxDegDvs, oc \in BOOLEAN :
         args = Args("num_bits", <<>>, <<>>, 2 * DVS - 2, DVS, 0, Qw, 0, oc)
    /\ ctx = <<>> /\ ctx0 = <<>> /\ pc = "num_bits" /\ loc = NoLoc /\ ret = <<>>

ComputeNumBits ==
    /\ pc = "num_bits"
    /\ LET nb == NumBits(args.Qw, DEG_DVD, DEG_DVS)
       IN  IF nb.overflow /\ args.overflow_checks
           THEN pc' = "aborted" /\ UNCHANGED loc
           ELSE pc' = "bits_done" /\ loc' = [loc EXCEPT !.num_bits = nb.num_bits]
    /\ UNCHANGED <<ctx, ctx0, args, ret>>

SpecBits == InitBits /\ [][ComputeNumBits]_vars

---------------------------------------------------------------------------
\* Reference definitions the properties are stated with.

Max(x, y) == IF x > y THEN x ELSE y

\* sum of av[j] * bv[i - j] for j from lo to hi (0-based indices)
RECURSIVE SumProducts(_, _, _, _, _)
SumProducts(av, bv, i, lo, hi) ==
    IF lo > hi THEN 0
    ELSE av[lo + 1] * bv[i - lo + 1] + SumProducts(av, bv, i, lo + 1, hi)

\* coefficient i of the convolution of av and bv
ConvSum(av, bv, i) ==
    SumProducts(av, bv, i, Max(0, i - (Len(bv) - 1)), Min(i, Len(av) - 1))

\* The session c with the witness cells in DOMAIN ov carrying ov's values
\* and every gate's output recomputed from its inputs.
RECURSIVE ReEval(_, _, _, _)
ReEval(c, ov, t, acc) ==
    IF t > Len(c) THEN acc
    ELSE LET e == c[t]
             v == CASE e.g = "witness"  -> IF t \in DOMAIN ov THEN ov[t] ELSE e.v
                    [] e.g = "add"      -> acc[e.a].v + acc[e.b].v
                    [] e.g = "mul"      -> acc[e.a].v * acc[e.b].v
                    [] e.g = "div"      -> acc[e.a].v \div e.k
                    [] e.g = "rem"      -> acc[e.a].v % e.k
                    [] e.g = "is_equal" -> IF acc[e.a].v = acc[e.b].v THEN 1 ELSE 0
                    [] OTHER            -> e.v
         IN  ReEval(c, ov, t + 1, Append(acc, [e EXCEPT !.v = v]))

Reassign(c, ov) == ReEval(c, ov, 1, <<>>)

Done(op) == pc = "done" /\ args.op = op

DivideDone == Done("poly_divide_by_cyclo")

\* the oracle's remainder as a coefficient vector of degree DEG_DVD, its
\* constant term at the last index
OracleRemainderPoly ==
    Zeros(DEG_DVD + 1 - Len(loc.oracle_remainder)) \o loc.oracle_remainder

\* the remainder of dividend by divisor with coefficients in [0, Q - 1], as a
\* vector of degree DEG_DVD
TrueRemainder ==
    LET r == AddQ(LongDivision(Vals(ctx, dividend), Vals(ctx, divisor), <<>>).remainder,
                  args.Q)
    IN  Zeros(DEG_DVD + 1 - Len(r)) \o r

\* quotient * divisor + r = dividend, coefficient by coefficient, over the
\* integers
ExactIdentity(r) ==
    \A i \in 1..(DEG_DVD + 1) :
        ConvSum(loc.quotient_to_u64, Vals(ctx, divisor), i - 1) + r[i]
            = ctx[dividend[i]].v

\* the same identity modulo Q
IdentityModQ(r) ==
    \A i \in 1..(DEG_DVD + 1) :
        (ConvSum(loc.quotient_to_u64, Vals(ctx, divisor), i - 1) + r[i]) % args.Q
            = ctx[dividend[i]].v

---------------------------------------------------------------------------
\* C1.  Round trip of poly_divide_by_cyclo as claimed: with (q, r) the
\* oracle's output, the recorded constraints are satisfied if and only if
\* q * divisor + r = dividend coefficient-wise over the integers.
\* (Stated for the runs in which padding left the oracle's remainder as it
\* was, so that a violation is one of this claim alone.)
C1_ExactRoundTrip ==
    (DivideDone /\ loc.remainder_to_u64 = OracleRemainderPoly)
      => (Satisfied(ctx) <=> ExactIdentity(OracleRemainderPoly))

\* C1 as amended: the recorded constraints are satisfied if and only if
\* (q * divisor + R) mod Q = dividend coefficient-wise, R being the padded
\* remainder vector the function builds from r and returns.
C1_RoundTripModQ ==
    DivideDone => (Satisfied(ctx) <=> IdentityModQ(loc.remainder_to_u64))

\* a completed division whose constraints hold although the identity over
\* the integers does not (a remainder coefficient was normalised by adding Q)
C1_Witness ==
    /\ DivideDone
    /\ loc.remainder_to_u64 = OracleRemainderPoly
    /\ Satisfied(ctx)
    /\ ~ExactIdentity(OracleRemainderPoly)

\* C2.  Soundness of poly_divide_by_cyclo: whatever values the quotient and
\* remainder witnesses are given, if every recorded constraint holds then the
\* returned remainder is the remainder of dividend by divisor, zero in its
\* leading DEG_DVD - DEG_DVS + 1 positions.  (Checked for the assignments that
\* differ from the honest one in one quotient witness and two remainder
\* witnesses.)
C2_Soundness ==
    DivideDone =>
      \A j \in 1..Len(loc.quotient), i1 \in 1..Len(loc.remainder),
         i2 \in 1..Len(loc.remainder) :
        \A w \in 0..(args.Q - 1), v1 \in 0..(2 * args.Q), v2 \in 0..(2 * args.Q) :
          LET alt == Reassign(ctx, (loc.quotient[j] :> w)
                                     @@ (loc.remainder[i1] :> v1)
                                     @@ (loc.remainder[i2] :> v2))
          IN  Satisfied(alt) => Vals(alt, ret) = TrueRemainder

\* a "< Q" constraint is recorded on the cell
HasLessThanQ(cell) ==
    \E t \in 1..Len(ctx) :
        ctx[t].g = "lt" /\ ctx[t].a = cell /\ ctx[t].k = args.Q

\* C3.  After the range-constraint step a "< Q" constraint is recorded for
\* every quotient coefficient and for the remainder entries at indices
\* DEG_DVD - DEG_DVS + 1 ..= DEG_DVD.
C3_RangeConstraints ==
    (args.op = "poly_divide_by_cyclo" /\ pc \in {"mul", "add", "reduce", "equal", "done"})
      => /\ \A t \in 1..Len(loc.quotient) : HasLessThanQ(loc.quotient[t])
         /\ \A i \in (DEG_DVD - DEG_DVS + 1)..DEG_DVD : HasLessThanQ(loc.remainder[i + 1])

\* C4.  The returned remainder has length DEG_DVD + 1, its leading
\* DEG_DVD - DEG_DVS + 1 entries are 0 and its last DEG_DVS entries denote the
\* oracle's remainder, whatever its length between 1 and DEG_DVS.
C4_ReturnedRemainder ==
    DivideDone =>
      /\ Len(ret) = DEG_DVD + 1
      /\ \A t \in 1..(DEG_DVD - DEG_DVS + 1) : ctx[ret[t]].v = 0
      /\ Vals(ctx, ret) = OracleRemainderPoly

\* C5.  On inputs of equal degree DEG, poly_mul_equal_deg returns what
\* poly_mul_diff_deg returns: 2 * DEG + 1 coefficients, equal index by index.
C5_MulAgreement ==
    Done("poly_mul_equal_deg") =>
      LET r == PolyMulDiffDeg(ctx0, args.a, args.b)
      IN  /\ Len(ret) = 2 * args.DEG + 1
          /\ Len(r.out) = Len(ret)
          /\ Vals(ctx, ret) = Vals(r.ctx, r.out)

C5_Witness ==
    /\ Done("poly_mul_equal_deg")
    /\ args.DEG = MaxDeg
    /\ \A t \in 1..Len(ret) : ctx[ret[t]].v > 0

\* the coefficients handed to poly_reduce fit num_bits bits
FitsBits == \A t \in 1..Len(args.a) : ctx[args.a[t]].v < Pow2(args.num_bits)

\* C6.  poly_reduce on coefficients that fit num_bits bits returns DEG + 1
\* cells, cell i being the remainder component of div_mod of input i, in index
\* order, with value input[i] mod Q in [0, Q - 1]; the constraints hold.
C6_Reduce ==
    (Done("poly_reduce") /\ FitsBits) =>
      /\ Len(ret) = args.DEG + 1
      /\ \A t \in 1..Len(ret) :
           /\ ctx[ret[t]].g = "rem"
           /\ ctx[ret[t]].a = args.a[t]
           /\ ctx[ret[t]].v = ctx[args.a[t]].v % args.Q
           /\ ctx[ret[t]].v >= 0 /\ ctx[ret[t]].v < args.Q
           /\ t > 1 => ret[t - 1] < ret[t]
      /\ Satisfied(ctx)

C6_Witness ==
    /\ Done("poly_reduce") /\ FitsBits
    /\ args.DEG = MaxDeg
    /\ \E t \in 1..Len(ret) : ctx[args.a[t]].v > args.Q /\ ctx[ret[t]].v > 0

\* the call breaks a degree precondition of its operation
ShapeViolation ==
    CASE args.op \in {"poly_add", "poly_mul_equal_deg"} ->
           Len(args.a) - 1 # args.DEG \/ Len(args.a) # Len(args.b)
      [] args.op \in {"poly_scalar_mul", "poly_reduce"} ->
           Len(args.a) - 1 # args.DEG
      [] args.op = "poly_divide_by_cyclo" ->
           \/ ~DegreesOk(dividend, divisor, DEG_DVD, DEG_DVS)
           \/ /\ pc \notin {"call", "oracle"}
              /\ ~OracleOk(loc.quotient_to_u64, loc.oracle_remainder, DEG_DVD, DEG_DVS)
      [] OTHER -> FALSE

\* C7.  A call that breaks a degree precondition aborts, and the session is
\* then as it was at the call: no later step is reached and nothing has been
\* appended.
C7_AbortBeforeEffect ==
    /\ ShapeViolation => (pc \in {"call", "oracle", "aborted"} /\ ctx = ctx0)
    /\ pc = "aborted" => ShapeViolation

\* a division aborted because the oracle's quotient has the wrong length
C7_Witness ==
    /\ pc = "aborted" /\ args.op = "poly_divide_by_cyclo"
    /\ DegreesOk(dividend, divisor, DEG_DVD, DEG_DVS)
    /\ Len(loc.quotient_to_u64) - 1 # DEG_DVD - DEG_DVS

\* C8.  poly_mul_diff_deg returns degA + degB + 1 coefficients, coefficient i
\* being the sum of a[j] * b[i - j] over the j with 0 <= j <= degA and
\* 0 <= i - j <= degB: each pair of input cells is multiplied exactly once.
C8_Convolution ==
    Done("poly_mul_diff_deg") =>
      LET av == Vals(ctx, args.a)
          bv == Vals(ctx, args.b)
      IN  /\ Len(ret) = (Len(av) - 1) + (Len(bv) - 1) + 1
          /\ \A i \in 0..(Len(ret) - 1) : ctx[ret[i + 1]].v = ConvSum(av, bv, i)
          /\ \A j \in 1..Len(av), k \in 1..Len(bv) :
               Cardinality({t \in 1..Len(ctx) :
                   ctx[t].g = "mul" /\ ctx[t].a = args.a[j] /\ ctx[t].b = args.b[k]}) = 1
          /\ Cardinality({t \in 1..Len(ctx) : ctx[t].g = "mul"}) = Len(av) * Len(bv)
          /\ Satisfied(ctx)

C8_Witness ==
    /\ Done("poly_mul_diff_deg")
    /\ Len(args.a) > 1 /\ Len(args.b) > Len(args.a)
    /\ \E t \in 1..Len(ret) : ctx[ret[t]].v > 1

\* Every coefficient of sum lies in [0, (Q-1)*(DEG_DVD-DEG_DVS+1) + (Q-1)] and
\* below 2^num_bits (the moduli of Spec are far from overflowing a u64).
SumWithinBound ==
    (args.op = "poly_divide_by_cyclo" /\ pc \in {"equal", "done"}) =>
      \A t \in 1..Len(loc.sum) :
        /\ ctx[loc.sum[t]].v >= 0
        /\ ctx[loc.sum[t]].v <= (args.Q - 1) * (DEG_DVD - DEG_DVS + 1) + (args.Q - 1)
        /\ ctx[loc.sum[t]].v < Pow2(loc.num_bits)

\* C9.  The num_bits handed to poly_reduce is the bit length of
\* (Q-1)*(DEG_DVD-DEG_DVS+1) + (Q-1), the u64 computation not wrapping.
C9_NumBits ==
    pc = "bits_done" =>
      loc.num_bits = BinaryLen(OverflowBound(args.Qw, DEG_DVD, DEG_DVS))

\* C10.  As claimed: on inputs of equal degree poly_mul_equal_deg appends
\* strictly fewer entries to the session than poly_mul_diff_deg.
C10_FewerGates ==
    Done("poly_mul_equal_deg") =>
      Len(ctx) < Len(PolyMulDiffDeg(ctx0, args.a, args.b).ctx)

\* C10 as amended: on inputs of equal degree the two operations append the
\* same entries, in the same order and number.
C10_SameGates ==
    Done("poly_mul_equal_deg") =>
      ctx = PolyMulDiffDeg(ctx0, args.a, args.b).ctx

C10_Witness ==
    /\ Done("poly_mul_equal_deg")
    /\ args.DEG >= 1
    /\ Len(ctx) > Len(ctx0) + 3

=============================================================================
